---- MODULE Spec2Model ----
(***************************************************************************)
(* Model of the neural-network prediction service of the betting platform  *)
(* (src/api_neural_network.py): the NeuralNetworkAPI object, its startup   *)
(* load, and the /predict endpoint with the validation chain and the odds  *)
(* arithmetic of NeuralNetworkAPI.predict.                                 *)
(*                                                                         *)
(* Numbers.  The code computes on IEEE floats (numpy).  A float is         *)
(* modelled as an exact rational n/d, or one of the three special values   *)
(* the code can produce without raising: +inf, -inf and nan (numpy turns a *)
(* division by zero into inf and a warning, not into an exception).        *)
(* Rounding is not modelled: equalities below are those of exact           *)
(* arithmetic, which the code meets up to floating tolerance.              *)
(*                                                                         *)
(* Strings.  Team names are sequences of one-character strings, so that    *)
(* lower() and the substring test of find_similar_teams are computed.      *)
(* Division codes are only compared for equality and stay atomic strings.  *)
(***************************************************************************)
EXTENDS Integers, Sequences, FiniteSets, TLC

(***************************************************************************)
(* Bounds of the model.                                                    *)
(***************************************************************************)
\* Largest number of teams an encoders file holds (a prefix of TeamTable).
MaxTeams == 4
\* Largest number of divisions an encoders file holds (a prefix of DivisionTable).
MaxDivs == 11
\* Probabilities produced by the network are multiples of 1/ProbDenom.
ProbDenom == 3
\* Requested margins are multiples of 1/MarginDenom (and the default 0.12).
MarginDenom == 3
\* Number of distinct well-formed model files (weights) the service may load.
NumModels == 4
\* Calls counted after the one a caller kept (the count stops there).
MaxCallsSince == 2

(***************************************************************************)
(* Program constants.                                                      *)
(***************************************************************************)
\* PredictionRequest.year default
DefaultYear == 2024
\* PredictionRequest.month default
DefaultMonth == 5
\* similar[:3]
MaxSuggestions == 3
\* available_divs[:10]
MaxListedDivisions == 10
\* Suggestions returned by /team-suggestions.
MaxTeamSuggestions == 10
\* The year and month that APIClient.predict_match sends.
ClientYear == 2024
ClientMonth == 5

(***************************************************************************)
(* Float arithmetic (exact rationals plus inf, -inf, nan).                 *)
(***************************************************************************)
Abs(i) == IF i < 0 THEN -i ELSE i

RECURSIVE GCD(_, _)
GCD(a, b) == IF b = 0 THEN a ELSE GCD(b, a % b)

\* The float n/d (d # 0), in lowest terms with a positive denominator.
Fin(n, d) ==
    LET g == GCD(Abs(n), Abs(d))
        s == IF d < 0 THEN -1 ELSE 1
    IN  [k |-> "fin", n |-> (s * n) \div g, d |-> (s * d) \div g]

Inf  == [k |-> "inf",  n |-> 1,  d |-> 0]
NInf == [k |-> "ninf", n |-> -1, d |-> 0]
NaN  == [k |-> "nan",  n |-> 0,  d |-> 0]

IsFin(x) == x.k = "fin"
\* -1, 0, 1 for a float that is not nan
Sign(x) == IF x.n < 0 THEN -1 ELSE IF x.n > 0 THEN 1 ELSE 0

\* 1 / x as numpy computes it: 1/0 is inf (RuntimeWarning only), 1/inf is 0.
FloatRecip(x) ==
    CASE x.k = "nan" -> NaN
      [] x.k = "inf" -> Fin(0, 1)
      [] x.k = "ninf" -> Fin(0, 1)
      [] x.k = "fin" /\ x.n = 0 -> Inf
      [] OTHER -> Fin(x.d, x.n)

\* x * y: inf * 0 is nan, inf * negative is -inf.
FloatMul(x, y) ==
    IF x.k = "nan" \/ y.k = "nan" THEN NaN
    ELSE IF IsFin(x) /\ IsFin(y) THEN Fin(x.n * y.n, x.d * y.d)
    ELSE LET s == Sign(x) * Sign(y)
         IN  IF s = 0 THEN NaN ELSE IF s > 0 THEN Inf ELSE NInf

\* x + y: inf + (-inf) is nan.
FloatAdd(x, y) ==
    IF x.k = "nan" \/ y.k = "nan" THEN NaN
    ELSE IF IsFin(x) /\ IsFin(y) THEN Fin(x.n * y.d + y.n * x.d, x.d * y.d)
    ELSE IF IsFin(x) THEN y
    ELSE IF IsFin(y) THEN x
    ELSE IF x.k = y.k THEN x ELSE NaN

FloatNeg(x) ==
    CASE x.k = "nan" -> NaN
      [] x.k = "inf" -> NInf
      [] x.k = "ninf" -> Inf
      [] OTHER -> Fin(-x.n, x.d)

FloatSub(x, y) == FloatAdd(x, FloatNeg(y))

\* x < y and x <= y on floats; every comparison with nan is false.
FloatLt(x, y) ==
    /\ x.k # "nan" /\ y.k # "nan"
    /\ IF IsFin(x) /\ IsFin(y) THEN x.n * y.d < y.n * x.d
       ELSE IF IsFin(x) THEN y.k = "inf"
       ELSE IF IsFin(y) THEN x.k = "ninf"
       ELSE x.k = "ninf" /\ y.k = "inf"

FloatLe(x, y) == x.k # "nan" /\ y.k # "nan" /\ (x = y \/ FloatLt(x, y))

Zero == Fin(0, 1)
One == Fin(1, 1)
Hundred == Fin(100, 1)


(***************************************************************************)
(* Strings: str.lower() and the substring test `a in b`.                   *)
(***************************************************************************)
UpperCase == <<"A", "B", "C", "D", "E", "F", "G", "H", "I", "J", "K", "L", "M",
               "N", "O", "P", "Q", "R", "S", "T", "U", "V", "W", "X", "Y", "Z">>
LowerCase == <<"a", "b", "c", "d", "e", "f", "g", "h", "i", "j", "k", "l", "m",
               "n", "o", "p", "q", "r", "s", "t", "u", "v", "w", "x", "y", "z">>

LowerChar(c) ==
    IF \E i \in DOMAIN UpperCase : UpperCase[i] = c
    THEN LowerCase[CHOOSE i \in DOMAIN UpperCase : UpperCase[i] = c]
    ELSE c

\* str.lower()
lower(str) == [i \in DOMAIN str |-> LowerChar(str[i])]

\* Python's `a in b` on strings: a occurs in b as a contiguous run.
StrIn(a, b) ==
    \E off \in 0..(Len(b) - Len(a)) :
        \A i \in 1..Len(a) : b[off + i] = a[i]

\* ord(c) for the characters of the team names.
Ord(c) ==
    IF \E i \in DOMAIN UpperCase : UpperCase[i] = c
    THEN 64 + (CHOOSE i \in DOMAIN UpperCase : UpperCase[i] = c)
    ELSE IF \E i \in DOMAIN LowerCase : LowerCase[i] = c
    THEN 96 + (CHOOSE i \in DOMAIN LowerCase : LowerCase[i] = c)
    ELSE 32

\* a < b on strings: at the first position where they differ a has the
\* smaller character, or a ends there.
StrLess(a, b) ==
    \E i \in 1..(Len(b)) :
        /\ \A j \in 1..(i - 1) : j <= Len(a) /\ a[j] = b[j]
        /\ i > Len(a) \/ Ord(a[i]) < Ord(b[i])

\* sorted(seq) for a list of strings.
RECURSIVE sorted(_)
sorted(seq) ==
    IF seq = <<>> THEN <<>>
    ELSE LET first == CHOOSE i \in DOMAIN seq :
                          \A j \in DOMAIN seq : ~StrLess(seq[j], seq[i])
             rest == [j \in 1..(Len(seq) - 1) |->
                          IF j < first THEN seq[j] ELSE seq[j + 1]]
         IN  <<seq[first]>> \o sorted(rest)

\* seq[:n]
Take(seq, n) == SubSeq(seq, 1, IF Len(seq) < n THEN Len(seq) ELSE n)

(***************************************************************************)
(* Dictionaries keep insertion order: a sequence of <<key, value>> pairs   *)
(* with pairwise distinct keys.                                            *)
(***************************************************************************)
DictKeys(dict) == [i \in DOMAIN dict |-> dict[i][1]]
DictHas(dict, key) == \E i \in DOMAIN dict : dict[i][1] = key
DictGet(dict, key) == dict[CHOOSE i \in DOMAIN dict : dict[i][1] = key][2]

(***************************************************************************)
(* The data the service can be started with.                               *)
(***************************************************************************)
RealMadrid == <<"R", "e", "a", "l", " ", "M", "a", "d", "r", "i", "d">>
Barcelona == <<"B", "a", "r", "c", "e", "l", "o", "n", "a">>
Valencia == <<"V", "a", "l", "e", "n", "c", "i", "a">>
Sevilla == <<"S", "e", "v", "i", "l", "l", "a">>
Atalanta == <<"A", "t", "a", "l", "a", "n", "t", "a">>
Betis == <<"B", "e", "t", "i", "s">>
RaalMadrid == <<"R", "a", "a", "l", " ", "M", "a", "d", "r", "i", "d">>
MADRID == <<"M", "A", "D", "R", "I", "D">>
LetterA == <<"A">>

\* Teams an encoders file may hold, in label-encoder order.
TeamTable == <<RealMadrid, Barcelona, Valencia, Sevilla, Atalanta, Betis>>

\* Division codes an encoders file may hold, in label-encoder order.
DivisionTable == <<"SP1", "E0", "I1", "D1", "F1", "ARG", "AUT", "B1", "BRA",
                   "CHN", "D2", "DEN", "E1", "E2">>

\* Team names and division codes that requests carry.
RequestTeams == {RealMadrid, Barcelona, RaalMadrid, MADRID, LetterA}
RequestDivisions == {"SP1", "D2", "XX"}

\* house_margin values that requests carry: the multiples of 1/MarginDenom
\* from just below 0 to just above 1, and the default 0.12.
DefaultMargin == Fin(12, 100)

\* The network's output is float32: a softmax output sums to 1 only up to
\* rounding.  Deficit is the relative amount by which the output of a
\* network that rounds falls short of the grid vector, TinyMargin a
\* house_margin in (0, 1) below it.
Deficit == Fin(1, 1250)
TinyMargin == Fin(1, 2500)

RequestMargins ==
    {Fin(m, MarginDenom) : m \in (-1)..(MarginDenom + 1)}
        \cup {DefaultMargin, TinyMargin}

\* The label encoding of a table: its first n entries, numbered from 0.
Encoding(table, n) == [i \in 1..n |-> <<table[i], i - 1>>]

\* What model_encoders.pkl can hold.
EncoderFiles ==
    { [team_mapping |-> Encoding(TeamTable, nt),
       division_mapping |-> Encoding(DivisionTable, nd),
       available_teams |-> SubSeq(TeamTable, 1, na * nt)] :
         nt \in {2, MaxTeams}, nd \in {1, MaxDivs}, na \in {0, 1} }

\* A value that is None in the code.
None == [k |-> "None"]

\* Where load_model stops: "ok", a missing file, a file that fails to load,
\* or an encoders file that lacks its j-th key.
LoadFaults ==
    {"ok", "no_model_file", "no_scaler_file", "no_encoders_file",
     "bad_model", "bad_scaler", "bad_encoders",
     "no_key_1", "no_key_2", "no_key_3", "no_key_4", "no_key_5"}


(***************************************************************************)
(* State.                                                                  *)
(***************************************************************************)
VARIABLES
    lifespan,                 \* "starting" until the startup load has run, then "serving"
    model,                    \* self.model: None or the loaded network
    scaler,                   \* self.scaler: None or the loaded scaler
    label_encoder_teams,      \* self.label_encoder_teams
    label_encoder_divisions,  \* self.label_encoder_divisions
    team_mapping,             \* self.team_mapping
    division_mapping,         \* self.division_mapping
    available_teams,          \* self.available_teams
    is_loaded,                \* self.is_loaded
    request,                  \* the PredictionRequest of the last POST /predict
    frame,                    \* the locals of the last NeuralNetworkAPI.predict call
    response,                 \* the answer to the last POST /predict
    evaluations,              \* self.model.predict calls made for that POST
    earlier,                  \* an earlier POST /predict and its answer, as a caller kept them
    client,                   \* the APIClient.predict_match call of the dashboard
    load_return,              \* what the most recent load_model call returned
    dashboard,                \* the last call of a dashboard route or APIClient method
    page                      \* what displayResults put on the page

service == <<model, scaler, label_encoder_teams, label_encoder_divisions,
             team_mapping, division_mapping, available_teams, is_loaded>>
vars == <<lifespan, service, request, frame, response, evaluations, earlier,
          client, load_return, dashboard, page>>

\* self.league_mapping
league_mapping ==
    [ARG |-> "Primera Division Argentina", AUT |-> "Liga de Austria",
     B1 |-> "Belgian Pro League", BRA |-> "Brasileirao", CHN |-> "Liga China",
     D1 |-> "Bundesliga (Alemania)", D2 |-> "Bundesliga 2 (Alemania)",
     DEN |-> "Liga Dinamarca", E0 |-> "Premier League (Inglaterra)",
     E1 |-> "English League Championship", E2 |-> "English League One",
     E3 |-> "English League Two",
     EC |-> "National League (5ta Division Inglaterra)",
     F1 |-> "Ligue 1 (Francia)", F2 |-> "Ligue 2 (Francia)",
     FIN |-> "Liga Finlandia", G1 |-> "Liga Grecia", I1 |-> "Serie A (Italia)",
     I2 |-> "Serie B (Italia)", IRL |-> "Liga Irlanda", JAP |-> "Liga Japonesa",
     MEX |-> "Liga MX (Mexico)", N1 |-> "Eredivisie (Paises Bajos)",
     NOR |-> "Liga Noruega", P1 |-> "Primeira Liga (Portugal)",
     POL |-> "Liga Polonia", ROM |-> "Liga Rumania", RUS |-> "Liga Rusa",
     SC0 |-> "Scottish Premiership", SC1 |-> "Segunda Division Escocia",
     SC2 |-> "Tercera Division Escocia", SC3 |-> "Cuarta Division Escocia",
     SP1 |-> "La Liga (Espana)", SP2 |-> "La Liga 2 (Espana)",
     SUI |-> "Liga de Suiza", SWE |-> "Liga de Suecia", T1 |-> "Liga de Turquia",
     USA |-> "Major League Soccer (USA/Canada)"]

NoRequest == [k |-> "none"]
NoFrame == [k |-> "none"]
NoResponse == [k |-> "none"]
NoCall == [k |-> "none"]
NoPage == [k |-> "none"]

\* NeuralNetworkAPI.__init__ and the module-level predictor_api.
Init ==
    /\ lifespan = "starting"
    /\ model = None
    /\ scaler = None
    /\ label_encoder_teams = None
    /\ label_encoder_divisions = None
    /\ team_mapping = <<>>
    /\ division_mapping = <<>>
    /\ available_teams = <<>>
    /\ is_loaded = FALSE
    /\ request = NoRequest
    /\ frame = NoFrame
    /\ response = NoResponse
    /\ evaluations = 0
    /\ earlier = None
    /\ client = NoCall
    /\ load_return = None
    /\ dashboard = NoCall
    /\ page = NoPage

(***************************************************************************)
(* load_model.  `fault` says where the load stops, `weights` and `file`    *)
(* what model.h5 and model_encoders.pkl hold.  Assignments made before an  *)
(* exception stay; the except branch only clears is_loaded.                *)
(***************************************************************************)
\* Number of load steps completed before `fault`: 0 none, 1 model, 2 scaler,
\* 2 + j the first j of the five keys read from the encoders file, 8
\* everything and is_loaded ("no_key_j": the file lacks the j-th key).
LoadProgress(fault) ==
    CASE fault \in {"no_model_file", "no_scaler_file", "no_encoders_file"} -> 0
      [] fault = "bad_model" -> 0
      [] fault = "bad_scaler" -> 1
      [] fault = "bad_encoders" -> 2
      [] fault = "no_key_1" -> 2
      [] fault = "no_key_2" -> 3
      [] fault = "no_key_3" -> 4
      [] fault = "no_key_4" -> 5
      [] fault = "no_key_5" -> 6
      [] OTHER -> 8

\* A missing file returns False before the try block assigns anything.
LoadReturnsEarly(fault) ==
    fault \in {"no_model_file", "no_scaler_file", "no_encoders_file"}

load_model(fault, weights, rounding, file) ==
    LET done == LoadProgress(fault)
    IN  /\ model' = IF done >= 1
                    THEN [k |-> "model", weights |-> weights, rounding |-> rounding]
                    ELSE model
        /\ scaler' = IF done >= 2 THEN [k |-> "scaler"] ELSE scaler
        /\ label_encoder_teams' =
               IF done >= 3 THEN [k |-> "encoder"] ELSE label_encoder_teams
        /\ label_encoder_divisions' =
               IF done >= 4 THEN [k |-> "encoder"] ELSE label_encoder_divisions
        /\ team_mapping' = IF done >= 5 THEN file.team_mapping ELSE team_mapping
        /\ division_mapping' =
               IF done >= 6 THEN file.division_mapping ELSE division_mapping
        /\ available_teams' =
               IF done >= 7 THEN file.available_teams ELSE available_teams
        /\ is_loaded' = IF done >= 8 THEN TRUE
                        ELSE IF LoadReturnsEarly(fault) THEN is_loaded
                        ELSE FALSE
        /\ load_return' = [k |-> "return", value |-> (done >= 8)]

\* The largest encoders file.
FullFile ==
    [team_mapping |-> Encoding(TeamTable, MaxTeams),
     division_mapping |-> Encoding(DivisionTable, MaxDivs),
     available_teams |-> SubSeq(TeamTable, 1, MaxTeams)]

\* The files found at startup: every combination of model and encoders file
\* for a load that completes, each network that rounds with the largest
\* encoders file, and one combination for each fault.
LoadCases ==
    { [fault |-> "ok", weights |-> w, rounding |-> Zero, file |-> f] :
          w \in 0..NumModels, f \in EncoderFiles }
    \cup
    { [fault |-> "ok", weights |-> w, rounding |-> Deficit, file |-> FullFile] :
          w \in 1..NumModels }
    \cup
    { [fault |-> flt, weights |-> 1, rounding |-> Zero, file |-> FullFile] :
          flt \in LoadFaults \ {"ok"} }

\* lifespan: the one load_model call made before the service takes requests.
Startup ==
    /\ lifespan = "starting"
    /\ \E c \in LoadCases : load_model(c.fault, c.weights, c.rounding, c.file)
    /\ lifespan' = "serving"
    /\ UNCHANGED <<request, frame, response, evaluations, earlier, client,
                   dashboard, page>>


(***************************************************************************)
(* The loaded network.  keras' model.predict on the scaled features is a   *)
(* fixed function of the features once the files are loaded; which         *)
(* function depends on the files.  `weights` stands for the file contents: *)
(* weights 0 is a network that does not accept the feature vector (predict *)
(* raises), every other value a network whose output on a feature vector   *)
(* is the grid vector selected by a linear read-out of the features,       *)
(* shifted by the weights, and scaled by 1 - rounding.                     *)
(***************************************************************************)
\* All output vectors on the grid: components 0..ProbDenom, in units of
\* 1/ProbDenom.  Nothing normalises them: a network need not end in softmax,
\* and a float32 softmax can underflow to exactly 0.
GridSize == (ProbDenom + 1) * (ProbDenom + 1) * (ProbDenom + 1)

GridVector(idx) ==
    <<Fin(idx % (ProbDenom + 1), ProbDenom),
      Fin((idx \div (ProbDenom + 1)) % (ProbDenom + 1), ProbDenom),
      Fin(idx \div ((ProbDenom + 1) * (ProbDenom + 1)), ProbDenom)>>

RECURSIVE ReadOut(_, _)
ReadOut(features, i) ==
    IF i > Len(features) THEN 0 ELSE i * features[i] + ReadOut(features, i + 1)

ModelRaises(net) == net.weights = 0

\* self.model.predict(self.scaler.transform(features), verbose=0)[0]
ModelPredict(net, features) ==
    LET exact == GridVector((ReadOut(features, 1) + net.weights * (GridSize - 1))
                                % GridSize)
    IN  [i \in 1..3 |-> FloatMul(exact[i], FloatSub(One, net.rounding))]

(***************************************************************************)
(* NeuralNetworkAPI                                                        *)
(***************************************************************************)
\* Variant: teams count as similar when they start with the same letter.
find_similar_teams_initial(team_name) ==
    IF available_teams = <<>> \/ team_name = <<>> THEN <<>>
    ELSE LET SameInitial(team) ==
                 team # <<>> /\ LowerChar(team[1]) = LowerChar(team_name[1])
         IN  SelectSeq(available_teams, SameInitial)

\* The list comprehension is SelectSeq: the teams that pass, in list order.
find_similar_teams(team_name) ==
    IF available_teams = <<>> THEN <<>>
    ELSE LET team_name_lower == lower(team_name)
             Similar(team) == StrIn(team_name_lower, lower(team))
         IN  SelectSeq(available_teams, Similar)

get_division_full_name(division_abbr) ==
    IF division_abbr \in DOMAIN league_mapping
    THEN league_mapping[division_abbr]
    ELSE division_abbr

HTTPException(status_code, detail) ==
    [k |-> "raise", status_code |-> status_code, detail |-> detail]

\* Variant: every similar team is listed.
TeamNotFound_untruncated(role, team_name) ==
    [msg |-> "Equipo no encontrado", role |-> role, team |-> team_name,
     suggestions |-> find_similar_teams(team_name)]

\* The detail of the 400 raised for a team that is not in team_mapping:
\* the message names the team and, when there are similar teams, the first
\* three of them.
TeamNotFound(role, team_name) ==
    LET similar == find_similar_teams(team_name)
    IN  [msg |-> "Equipo no encontrado", role |-> role, team |-> team_name,
         suggestions |-> Take(similar, MaxSuggestions)]

\* Variant: every key is listed.
DivisionNotFound_untruncated(division) ==
    [msg |-> "Division no encontrada", division |-> division,
     available |-> DictKeys(division_mapping)]

\* The detail of the 400 raised for a division that is not in
\* division_mapping: the message lists the first ten keys.
DivisionNotFound(division) ==
    LET available_divs == DictKeys(division_mapping)
    IN  [msg |-> "Division no encontrada", division |-> division,
         available |-> Take(available_divs, MaxListedDivisions)]

\* Variant: the division is checked before the teams.
validate_division_first(home_team, away_team, division) ==
    IF ~is_loaded
    THEN HTTPException(503, [msg |-> "Modelo no cargado. Servicio no disponible."])
    ELSE IF ~DictHas(division_mapping, division)
    THEN HTTPException(400, DivisionNotFound(division))
    ELSE IF ~DictHas(team_mapping, home_team)
    THEN HTTPException(400, TeamNotFound("local", home_team))
    ELSE IF ~DictHas(team_mapping, away_team)
    THEN HTTPException(400, TeamNotFound("visitante", away_team))
    ELSE None

\* Variant: the away team is looked up before the home team.
validate_away_first(home_team, away_team, division) ==
    IF ~is_loaded
    THEN HTTPException(503, [msg |-> "Modelo no cargado. Servicio no disponible."])
    ELSE IF ~DictHas(team_mapping, away_team)
    THEN HTTPException(400, TeamNotFound("visitante", away_team))
    ELSE IF ~DictHas(team_mapping, home_team)
    THEN HTTPException(400, TeamNotFound("local", home_team))
    ELSE IF ~DictHas(division_mapping, division)
    THEN HTTPException(400, DivisionNotFound(division))
    ELSE None

\* The checks that open predict, in the order of the code: the exception
\* raised by the first check that fails, or None when all pass.
validate(home_team, away_team, division) ==
    IF ~is_loaded
    THEN HTTPException(503, [msg |-> "Modelo no cargado. Servicio no disponible."])
    ELSE IF ~DictHas(team_mapping, home_team)
    THEN HTTPException(400, TeamNotFound("local", home_team))
    ELSE IF ~DictHas(team_mapping, away_team)
    THEN HTTPException(400, TeamNotFound("visitante", away_team))
    ELSE IF ~DictHas(division_mapping, division)
    THEN HTTPException(400, DivisionNotFound(division))
    ELSE None

\* Variant: the odds against the outcome, 1 / (1 - p).
fair_odds_against(probabilities) ==
    [i \in 1..3 |-> FloatRecip(FloatSub(One, probabilities[i]))]

\* fair_odds = 1 / probabilities
fair_odds(probabilities) ==
    [i \in 1..3 |-> FloatRecip(probabilities[i])]

\* Variant: the odds are the margin's share of the fair odds.
odds_margin_share(fair, house_margin) ==
    [i \in 1..3 |-> FloatMul(fair[i], house_margin)]

\* Variant: the margin is applied as a mark-up.
odds_marked_up(fair, house_margin) ==
    [i \in 1..3 |-> FloatMul(fair[i], FloatAdd(One, house_margin))]

\* Variant: the fair odds are returned as they are.
odds_unshrunk(fair, house_margin) == fair

\* odds = fair_odds * (1 - house_margin)
odds(fair, house_margin) ==
    [i \in 1..3 |-> FloatMul(fair[i], FloatSub(One, house_margin))]

\* implied_prob_sum = sum(1/odd for odd in odds)
implied_prob_sum(bookmaker) ==
    FloatAdd(FloatAdd(FloatAdd(Zero, FloatRecip(bookmaker[1])),
                      FloatRecip(bookmaker[2])),
             FloatRecip(bookmaker[3]))

\* Variant: the margin as a fraction, not in percent.
actual_margin_fraction(implied) == FloatSub(implied, One)

\* actual_margin = (implied_prob_sum - 1) * 100
actual_margin(implied) == FloatMul(FloatSub(implied, One), Hundred)

\* Variant: the network output is divided by its sum before use.
Locals_renormalized(home_team, away_team, division, year, month, house_margin) ==
    LET features == <<year, month, 12, 10, 5, 4, 12, 14, 6, 5, 2, 2,
                      DictGet(team_mapping, home_team),
                      DictGet(team_mapping, away_team),
                      DictGet(division_mapping, division)>>
        raw == ModelPredict(model, features)
        total == FloatAdd(FloatAdd(raw[1], raw[2]), raw[3])
        probabilities == [i \in 1..3 |-> FloatMul(raw[i], FloatRecip(total))]
        fair == fair_odds(probabilities)
        bookmaker == odds(fair, house_margin)
        implied == implied_prob_sum(bookmaker)
    IN  [k |-> "locals", features |-> features, probabilities |-> probabilities,
         fair_odds |-> fair, odds |-> bookmaker, implied_prob_sum |-> implied,
         actual_margin |-> actual_margin(implied),
         house_edge |-> actual_margin(implied)]

\* The locals of the try block of predict.
Locals(home_team, away_team, division, year, month, house_margin) ==
    LET features == <<year, month, 12, 10, 5, 4, 12, 14, 6, 5, 2, 2,
                      DictGet(team_mapping, home_team),
                      DictGet(team_mapping, away_team),
                      DictGet(division_mapping, division)>>
        probabilities == ModelPredict(model, features)
        fair == fair_odds(probabilities)
        bookmaker == odds(fair, house_margin)
        implied == implied_prob_sum(bookmaker)
    IN  [k |-> "locals", features |-> features, probabilities |-> probabilities,
         fair_odds |-> fair, odds |-> bookmaker, implied_prob_sum |-> implied,
         actual_margin |-> actual_margin(implied),
         house_edge |-> actual_margin(implied)]

\* NeuralNetworkAPI.predict: what the call raises or returns, with its locals
\* and the number of self.model.predict calls it made.
predict(home_team, away_team, division, year, month, house_margin) ==
    LET failed == validate(home_team, away_team, division)
    IN  IF failed # None
        THEN [outcome |-> failed, frame |-> NoFrame, evaluations |-> 0]
        ELSE IF ModelRaises(model)
        THEN [outcome |-> HTTPException(500, [msg |-> "Error en la prediccion"]),
              frame |-> NoFrame, evaluations |-> 1]
        ELSE LET l == Locals(home_team, away_team, division, year, month,
                             house_margin)
             IN  [outcome |->
                    [k |-> "return",
                     value |->
                       [home_team |-> home_team,
                        away_team |-> away_team,
                        division_full_name |-> get_division_full_name(division),
                        probabilities |->
                          [home_win |-> l.probabilities[1],
                           draw |-> l.probabilities[2],
                           away_win |-> l.probabilities[3]],
                        odds |->
                          [home_win |-> l.odds[1],
                           draw |-> l.odds[2],
                           away_win |-> l.odds[3]],
                        house_margin |-> house_margin,
                        actual_margin |-> l.actual_margin,
                        house_edge |-> l.house_edge]],
                   frame |-> l, evaluations |-> 1]

(***************************************************************************)
(* POST /predict                                                           *)
(***************************************************************************)
PredictionRequest(home_team, away_team, division, year, month, house_margin) ==
    [k |-> "request", home_team |-> home_team, away_team |-> away_team,
     division |-> division, year |-> year, month |-> month,
     house_margin |-> house_margin]

\* PredictionResponse(success=True, ..., message=...) built from the dict
\* that predict returned.
PredictionResponse(result) ==
    [success |-> TRUE,
     home_team |-> result.home_team,
     away_team |-> result.away_team,
     division_full_name |-> result.division_full_name,
     probabilities |-> result.probabilities,
     odds |-> result.odds,
     house_margin |-> result.house_margin,
     actual_margin |-> result.actual_margin,
     house_edge |-> result.house_edge,
     message |-> "Prediccion realizada exitosamente por la red neuronal"]

\* The HTTP answer to a predict call: an HTTPException of predict is
\* re-raised as it is, a returned dict becomes the PredictionResponse.
Answer(call) ==
    IF call.outcome.k = "raise"
    THEN [k |-> "error", status_code |-> call.outcome.status_code,
          detail |-> call.outcome.detail]
    ELSE [k |-> "ok", status_code |-> 200,
          body |-> PredictionResponse(call.outcome.value)]

\* Variant: the handler takes the first entry off available_teams.
predict_match_consuming(req) ==
    LET call == predict(req.home_team, req.away_team, req.division, req.year,
                        req.month, req.house_margin)
    IN  /\ request' = req
        /\ frame' = call.frame
        /\ evaluations' = call.evaluations
        /\ response' = Answer(call)
        /\ available_teams' =
               IF available_teams = <<>> THEN <<>> ELSE Tail(available_teams)
        /\ UNCHANGED <<model, scaler, label_encoder_teams,
                       label_encoder_divisions, team_mapping, division_mapping,
                       is_loaded>>

\* The endpoint.  Neither it nor predict assigns an attribute of
\* predictor_api.
predict_match(req) ==
    LET call == predict(req.home_team, req.away_team, req.division, req.year,
                        req.month, req.house_margin)
    IN  /\ request' = req
        /\ frame' = call.frame
        /\ evaluations' = call.evaluations
        /\ response' = Answer(call)
        /\ UNCHANGED service

\* A POST /predict arrives and is handled to its answer.
PredictMatch ==
    /\ lifespan = "serving"
    /\ response = NoResponse
    /\ \E home_team \in RequestTeams, away_team \in RequestTeams,
          division \in RequestDivisions, house_margin \in RequestMargins :
           predict_match(PredictionRequest(home_team, away_team, division,
                                           DefaultYear, DefaultMonth,
                                           house_margin))
    /\ UNCHANGED <<lifespan, earlier, client, load_return, dashboard, page>>

\* The answer has been sent: the request, the locals of the call and the
\* answer are gone, and the next request can be taken.
Reply ==
    /\ response # NoResponse
    /\ client = NoCall
    /\ request' = NoRequest
    /\ frame' = NoFrame
    /\ response' = NoResponse
    /\ evaluations' = 0
    /\ UNCHANGED <<lifespan, service, earlier, client, load_return, dashboard,
                   page>>

Next == Startup \/ PredictMatch \/ Reply

Spec == Init /\ [][Next]_vars

(***************************************************************************)
(* The service with a caller that keeps an earlier request and its answer. *)
(* The caller keeps the requests of ProbeRequests only; the service is     *)
(* started from the largest encoders file.                                 *)
(***************************************************************************)
ProbeRequests ==
    { PredictionRequest(Barcelona, RealMadrid, "SP1", DefaultYear,
                        DefaultMonth, house_margin) :
        house_margin \in {m \in RequestMargins :
                             FloatLt(Zero, m) /\ FloatLt(m, One)} }
    \cup
    { PredictionRequest(LetterA, RealMadrid, "SP1", DefaultYear, DefaultMonth,
                        DefaultMargin),
      PredictionRequest(Barcelona, RealMadrid, "XX", DefaultYear, DefaultMonth,
                        DefaultMargin) }

\* What the caller holds after one more call: the number of calls made
\* since the one kept goes up, to MaxCallsSince at most.
Later(kept) ==
    IF kept = None THEN None
    ELSE [kept EXCEPT !.calls_since =
              IF @ < MaxCallsSince THEN @ + 1 ELSE MaxCallsSince]

RepeatLoadCases ==
    {c \in LoadCases : c.file = FullFile /\ c.fault \in {"ok", "bad_encoders"}}

StartupRepeat ==
    /\ lifespan = "starting"
    /\ \E c \in RepeatLoadCases :
           load_model(c.fault, c.weights, c.rounding, c.file)
    /\ lifespan' = "serving"
    /\ UNCHANGED <<request, frame, response, evaluations, earlier, client,
                   dashboard, page>>

\* A POST /predict is handled; the caller may keep it and its answer.
PredictMatchRepeat ==
    /\ lifespan = "serving"
    /\ response = NoResponse
    /\ \E home_team \in RequestTeams, away_team \in RequestTeams,
          division \in RequestDivisions, house_margin \in RequestMargins :
           LET req == PredictionRequest(home_team, away_team, division,
                                        DefaultYear, DefaultMonth, house_margin)
           IN  /\ predict_match(req)
               /\ \/ earlier' = Later(earlier)
                  \/ /\ req \in ProbeRequests
                     /\ earlier' = [request |-> req, response |-> response',
                                    frame |-> frame', calls_since |-> 0]
    /\ UNCHANGED <<lifespan, client, load_return, dashboard, page>>

NextRepeat == StartupRepeat \/ PredictMatchRepeat \/ Reply

SpecRepeat == Init /\ [][NextRepeat]_vars


(***************************************************************************)
(* The dashboard's APIClient.predict_match calling the service.            *)
(* `transport` is what becomes of the one session.post: "delivered" (the   *)
(* service answers and the answer arrives), "Timeout" (the service handles *)
(* the request, the answer does not arrive within 30 s and post raises) or *)
(* "ConnectionError" (the request does not reach the service and post      *)
(* raises).                                                                *)
(***************************************************************************)
Transports == {"delivered", "Timeout", "ConnectionError"}

\* Variant: a call that got no result posts a second time.
APIClient_predict_match_retrying(home_team, away_team, division, house_margin, transport) ==
    LET data == PredictionRequest(home_team, away_team, division, ClientYear,
                                  ClientMonth, house_margin)
    IN  /\ IF transport = "ConnectionError"
           THEN UNCHANGED <<service, request, frame, response, evaluations>>
           ELSE predict_match(data)
        /\ LET result == IF transport = "delivered" /\ response'.status_code = 200
                         THEN response'.body
                         ELSE None
           IN  client' = [k |-> "returned", data |-> data,
                          posts |-> IF result = None THEN 2 ELSE 1,
                          transport |-> transport, result |-> result]

\* APIClient.predict_match: one session.post; the json of a 200 answer is
\* returned, any other status and any exception give None.
APIClient_predict_match(home_team, away_team, division, house_margin, transport) ==
    LET data == PredictionRequest(home_team, away_team, division, ClientYear,
                                  ClientMonth, house_margin)
    IN  /\ IF transport = "ConnectionError"
           THEN UNCHANGED <<service, request, frame, response, evaluations>>
           ELSE predict_match(data)
        /\ client' = [k |-> "returned", data |-> data, posts |-> 1,
                      transport |-> transport,
                      result |-> IF transport = "delivered"
                                    /\ response'.status_code = 200
                                 THEN response'.body
                                 ELSE None]

\* The dashboard calls api_client.predict_match.  A service that is not up
\* yet cannot be reached.
APIClientPredictMatch ==
    /\ client = NoCall
    /\ response = NoResponse
    /\ \E home_team \in RequestTeams, away_team \in RequestTeams,
          division \in RequestDivisions, house_margin \in RequestMargins,
          transport \in Transports :
           /\ lifespan = "starting" => transport = "ConnectionError"
           /\ APIClient_predict_match(home_team, away_team, division,
                                      house_margin, transport)
    /\ UNCHANGED <<lifespan, earlier, load_return, dashboard, page>>

\* The caller has the return value; the call and the request are over.
ClientReturn ==
    /\ client # NoCall
    /\ client' = NoCall
    /\ request' = NoRequest
    /\ frame' = NoFrame
    /\ response' = NoResponse
    /\ evaluations' = 0
    /\ UNCHANGED <<lifespan, service, earlier, load_return, dashboard, page>>

NextClient == Startup \/ APIClientPredictMatch \/ ClientReturn

SpecClient == Init /\ [][NextClient]_vars

(***************************************************************************)
(* The GET endpoints of the service.  Each is a function of predictor_api; *)
(* its answer has the shape of the answers of POST /predict.               *)
(***************************************************************************)
OkAnswer(body) == [k |-> "ok", status_code |-> 200, body |-> body]

ErrorAnswer(status_code, detail) ==
    [k |-> "error", status_code |-> status_code, detail |-> detail]

\* GET /
root ==
    OkAnswer([message |-> "Neural Network Betting Predictor API",
              status |-> "online", model_loaded |-> is_loaded])

\* GET /health
health_check ==
    OkAnswer([status |-> "healthy", model_loaded |-> is_loaded,
              available_teams_count |->
                  IF is_loaded THEN Len(available_teams) ELSE 0,
              available_divisions_count |->
                  IF is_loaded THEN Len(division_mapping) ELSE 0,
              api_version |-> "1.0.0"])

get_teams_by_division(division) ==
    IF ~is_loaded THEN <<>> ELSE available_teams

\* GET /teams; the query parameter is "" when the request has none.
get_available_teams(division) ==
    IF ~is_loaded THEN ErrorAnswer(503, [msg |-> "Modelo no cargado"])
    ELSE LET teams == IF division # "" THEN get_teams_by_division(division)
                      ELSE available_teams
         IN  OkAnswer([success |-> TRUE, teams |-> sorted(teams),
                       total |-> Len(teams),
                       division |-> IF division # "" THEN division ELSE "all"])

\* The divisions answered while the model is not loaded.
basic_divisions ==
    << <<"SP1", "La Liga (Espana)">>, <<"E0", "Premier League (Inglaterra)">>,
       <<"I1", "Serie A (Italia)">>, <<"D1", "Bundesliga (Alemania)">>,
       <<"F1", "Ligue 1 (Francia)">> >>

\* Variant: an unloaded service refuses /divisions as it refuses /teams.
get_available_divisions_refusing ==
    IF ~is_loaded THEN ErrorAnswer(503, [msg |-> "Modelo no cargado"])
    ELSE LET divisions_with_names ==
                 [i \in DOMAIN division_mapping |->
                      <<division_mapping[i][1],
                        get_division_full_name(division_mapping[i][1])>>]
         IN  OkAnswer([success |-> TRUE, divisions |-> divisions_with_names,
                       total |-> Len(divisions_with_names)])

\* GET /divisions
get_available_divisions ==
    IF ~is_loaded
    THEN OkAnswer([success |-> TRUE, divisions |-> basic_divisions,
                   total |-> Len(basic_divisions)])
    ELSE LET divisions_with_names ==
                 [i \in DOMAIN division_mapping |->
                      <<division_mapping[i][1],
                        get_division_full_name(division_mapping[i][1])>>]
         IN  OkAnswer([success |-> TRUE, divisions |-> divisions_with_names,
                       total |-> Len(divisions_with_names)])

\* GET /team-suggestions/{team_name}
get_team_suggestions(team_name) ==
    IF ~is_loaded THEN ErrorAnswer(503, [msg |-> "Modelo no cargado"])
    ELSE LET suggestions == find_similar_teams(team_name)
         IN  OkAnswer([success |-> TRUE, team_name |-> team_name,
                       suggestions |-> Take(suggestions, MaxTeamSuggestions),
                       total_suggestions |-> Len(suggestions)])

\* The GET requests: those without a parameter, /teams with its query
\* parameter, /team-suggestions with the name in its path.
GetRequests ==
    {[k |-> "get", path |-> "/"], [k |-> "get", path |-> "/health"],
     [k |-> "get", path |-> "/divisions"]}

GetTeamsRequests ==
    {[k |-> "get", path |-> "/teams", division |-> d] : d \in {"", "SP1", "XX"}}

GetTeamSuggestionsRequests ==
    {[k |-> "get", path |-> "/team-suggestions", team_name |-> t] :
        t \in {RealMadrid, MADRID, LetterA}}

\* The answer of the service to a GET request.
Serve(get) ==
    CASE get.path = "/" -> root
      [] get.path = "/health" -> health_check
      [] get.path = "/divisions" -> get_available_divisions
      [] get.path = "/teams" -> get_available_teams(get.division)
      [] get.path = "/team-suggestions" -> get_team_suggestions(get.team_name)

\* A GET request arrives at the service and is handled to its answer.
Get ==
    /\ lifespan = "serving"
    /\ response = NoResponse
    /\ \/ \E get \in GetRequests : request' = get /\ response' = Serve(get)
       \/ \E get \in GetTeamsRequests : request' = get /\ response' = Serve(get)
       \/ \E get \in GetTeamSuggestionsRequests :
              request' = get /\ response' = Serve(get)
    /\ frame' = NoFrame
    /\ evaluations' = 0
    /\ UNCHANGED <<lifespan, service, earlier, client, load_return, dashboard,
                   page>>

NextEndpoints == Startup \/ PredictMatch \/ Get \/ Reply

SpecEndpoints == Init /\ [][NextEndpoints]_vars

(***************************************************************************)
(* load_model called any number of times on predictor_api, each time with  *)
(* whatever files are there at that moment, before requests are taken.     *)
(***************************************************************************)
LoadModel ==
    /\ lifespan = "starting"
    /\ \E c \in LoadCases : load_model(c.fault, c.weights, c.rounding, c.file)
    /\ UNCHANGED <<lifespan, request, frame, response, evaluations, earlier,
                   client, dashboard, page>>

NextReload == LoadModel

SpecReload == Init /\ [][NextReload]_vars

(***************************************************************************)
(* The dashboard (src/app.py): the Flask route /api/predict and the        *)
(* browser's displayResults.  The JSON body of a request is a record with  *)
(* the set `present` of the keys it has; a key that is absent reads as     *)
(* None with data.get.                                                     *)
(***************************************************************************)
\* not data.get(key): the key is absent or its value is the empty string.
\* (Team names are sequences of characters, division codes strings.)
Missing(data, key) ==
    \/ key \notin data.present
    \/ IF key = "division" THEN data[key] = "" ELSE data[key] = <<>>

\* The bodies posted to /api/predict.
DashboardData ==
    { [present |-> present, home_team |-> home_team, away_team |-> away_team,
       division |-> division, house_margin |-> Fin(1, MarginDenom)] :
        present \in { {"home_team", "away_team", "division", "house_margin"},
                      {"away_team", "division", "house_margin"},
                      {"home_team", "division", "house_margin"},
                      {"home_team", "away_team", "house_margin"},
                      {"home_team", "away_team", "division"} },
        home_team \in {RealMadrid, Barcelona, RaalMadrid, MADRID, <<>>},
        away_team \in {RealMadrid, Barcelona, <<>>},
        division \in {"SP1", "XX", ""} }

\* The reply of a route: jsonify of a dict.
ErrorReply(error) == [success |-> FALSE, error |-> error]

\* Variant: the identical-teams check comes first.
api_predict_identical_first(data, transport) ==
    IF data.home_team = data.away_team
    THEN /\ dashboard' =
               [route |-> "/api/predict", data |-> data,
                reply |-> ErrorReply("Los equipos deben ser diferentes")]
         /\ UNCHANGED <<service, request, frame, response, evaluations, client>>
    ELSE IF \/ Missing(data, "home_team") \/ Missing(data, "away_team")
            \/ Missing(data, "division")
    THEN /\ dashboard' =
               [route |-> "/api/predict", data |-> data,
                reply |-> ErrorReply("Faltan datos requeridos: home_team, away_team, division")]
         /\ UNCHANGED <<service, request, frame, response, evaluations, client>>
    ELSE LET house_margin == IF "house_margin" \in data.present
                             THEN data.house_margin
                             ELSE DefaultMargin
         IN  /\ APIClient_predict_match(data.home_team, data.away_team,
                                        data.division, house_margin, transport)
             /\ dashboard' =
                   [route |-> "/api/predict", data |-> data,
                    reply |->
                      IF client'.result # None
                      THEN [client'.result EXCEPT !.success = TRUE]
                               @@ ("bet_amount" :> Hundred)
                      ELSE ErrorReply("La red neuronal no esta disponible en este momento")]

\* Variant: the error answer of the service is passed on to the browser.
api_predict_forwarding(data, transport) ==
    IF \/ Missing(data, "home_team") \/ Missing(data, "away_team")
       \/ Missing(data, "division")
    THEN /\ dashboard' =
               [route |-> "/api/predict", data |-> data,
                reply |-> ErrorReply("Faltan datos requeridos: home_team, away_team, division")]
         /\ UNCHANGED <<service, request, frame, response, evaluations, client>>
    ELSE IF data.home_team = data.away_team
    THEN /\ dashboard' =
               [route |-> "/api/predict", data |-> data,
                reply |-> ErrorReply("Los equipos deben ser diferentes")]
         /\ UNCHANGED <<service, request, frame, response, evaluations, client>>
    ELSE LET house_margin == IF "house_margin" \in data.present
                             THEN data.house_margin
                             ELSE DefaultMargin
         IN  /\ APIClient_predict_match(data.home_team, data.away_team,
                                        data.division, house_margin, transport)
             /\ dashboard' =
                   [route |-> "/api/predict", data |-> data,
                    reply |->
                      IF client'.result # None
                      THEN [client'.result EXCEPT !.success = TRUE]
                               @@ ("bet_amount" :> Hundred)
                      ELSE IF client'.transport = "delivered"
                      THEN [success |-> FALSE, error |-> response'.detail.msg,
                            detail |-> response'.detail]
                      ELSE ErrorReply("La red neuronal no esta disponible en este momento")]

\* api_predict: the two checks, then api_client.predict_match, whose result
\* is returned with success and bet_amount added, or the fixed error when
\* it is None.
api_predict(data, transport) ==
    IF \/ Missing(data, "home_team") \/ Missing(data, "away_team")
       \/ Missing(data, "division")
    THEN /\ dashboard' =
               [route |-> "/api/predict", data |-> data,
                reply |-> ErrorReply("Faltan datos requeridos: home_team, away_team, division")]
         /\ UNCHANGED <<service, request, frame, response, evaluations, client>>
    ELSE IF data.home_team = data.away_team
    THEN /\ dashboard' =
               [route |-> "/api/predict", data |-> data,
                reply |-> ErrorReply("Los equipos deben ser diferentes")]
         /\ UNCHANGED <<service, request, frame, response, evaluations, client>>
    ELSE LET house_margin == IF "house_margin" \in data.present
                             THEN data.house_margin
                             ELSE DefaultMargin
         IN  /\ APIClient_predict_match(data.home_team, data.away_team,
                                        data.division, house_margin, transport)
             /\ dashboard' =
                   [route |-> "/api/predict", data |-> data,
                    reply |->
                      IF client'.result # None
                      THEN [client'.result EXCEPT !.success = TRUE]
                               @@ ("bet_amount" :> Hundred)
                      ELSE ErrorReply("La red neuronal no esta disponible en este momento")]

\* POST /api/predict arrives at the dashboard and is handled to its reply.
ApiPredict ==
    /\ dashboard = NoCall
    /\ client = NoCall
    /\ response = NoResponse
    /\ \E data \in DashboardData, transport \in Transports :
           /\ lifespan = "starting" => transport = "ConnectionError"
           /\ api_predict(data, transport)
    /\ UNCHANGED <<lifespan, earlier, load_return, page>>

\* Number.toFixed: the value rounded to `digits` decimals; Infinity and NaN
\* print as they are.
toFixed(x, digits) ==
    IF ~IsFin(x) THEN x
    ELSE LET scale == IF digits = 1 THEN 10 ELSE 100
             units == (2 * Abs(x.n) * scale + x.d) \div (2 * x.d)
         IN  Fin(Sign(x) * units, scale)

\* displayResults: the figures of the "Analisis Financiero" box.
displayResults(result) ==
    [k |-> "results",
     margen_de_la_casa |-> toFixed(FloatMul(result.actual_margin, Hundred), 2),
     house_edge |-> toFixed(FloatMul(result.house_edge, Hundred), 2),
     margen_configurado |-> toFixed(FloatMul(result.house_margin, Hundred), 1)]

\* The browser has the reply of /api/predict: it shows the results of a
\* reply with success, the error of any other.
ShowReply ==
    /\ dashboard # NoCall
    /\ dashboard.route = "/api/predict"
    /\ page = NoPage
    /\ page' = IF dashboard.reply.success
               THEN displayResults(dashboard.reply)
               ELSE [k |-> "error", error |-> dashboard.reply.error]
    /\ UNCHANGED <<lifespan, service, request, frame, response, evaluations,
                   earlier, client, load_return, dashboard>>

\* The call of the dashboard is over.
DashboardDone ==
    /\ dashboard # NoCall
    /\ dashboard.route = "/api/predict" => page # NoPage
    /\ dashboard' = NoCall
    /\ page' = NoPage
    /\ client' = NoCall
    /\ request' = NoRequest
    /\ frame' = NoFrame
    /\ response' = NoResponse
    /\ evaluations' = 0
    /\ UNCHANGED <<lifespan, service, earlier, load_return>>

\* The files found at startup when the dashboard is looked at: the largest
\* encoders file, networks that do not round.
DashboardLoadCases == {c \in LoadCases : c.file = FullFile /\ c.rounding = Zero}

StartupDashboard ==
    /\ lifespan = "starting"
    /\ \E c \in DashboardLoadCases :
           load_model(c.fault, c.weights, c.rounding, c.file)
    /\ lifespan' = "serving"
    /\ UNCHANGED <<request, frame, response, evaluations, earlier, client,
                   dashboard, page>>

NextDashboard == StartupDashboard \/ ApiPredict \/ ShowReply \/ DashboardDone

SpecDashboard == Init /\ [][NextDashboard]_vars

(***************************************************************************)
(* The GET calls of APIClient (src/app.py) and the route /api/status.      *)
(* session.get gives the answer of the service, the answer of something    *)
(* between the two, or raises.                                             *)
(***************************************************************************)
\* What may become of a GET: the service answers; a gateway answers 502;
\* the call times out; the connection is refused.
GetTransports == {"delivered", "BadGateway", "Timeout", "ConnectionError"}

\* For the calls that read `success` in the body: also a 200 whose body has
\* success false.
ListTransports == GetTransports \cup {"success_false"}

\* session.get(url): an answer with its status code, or an exception.
Fetch(get, transport) ==
    CASE transport = "delivered" -> Serve(get)
      [] transport = "BadGateway" -> ErrorAnswer(502, [msg |-> "Bad Gateway"])
      [] transport = "success_false" ->
             OkAnswer([success |-> FALSE, error |-> "unavailable"])
      [] OTHER -> [k |-> "exception", name |-> transport]

\* response.status_code == 200 of something session.get returned.
Status200(answer) == answer.k = "ok"

\* APIClient._fallback_health_check: GET / with the calls made so far.
APIClient_fallback_health_check(gets, transport) ==
    LET answer == Fetch([k |-> "get", path |-> "/"], transport)
        made == Append(gets, [path |-> "/", answer |-> answer])
    IN  IF Status200(answer)
        THEN [online |-> TRUE, data |-> answer.body, gets |-> made]
        ELSE [online |-> FALSE, data |-> None, gets |-> made]

\* Variant: only an exception of /health leads to the root endpoint.
APIClient_health_check_on_exception(health_transport, root_transport) ==
    LET answer == Fetch([k |-> "get", path |-> "/health"], health_transport)
        made == <<[path |-> "/health", answer |-> answer]>>
    IN  IF Status200(answer)
        THEN [online |-> TRUE, data |-> answer.body, gets |-> made]
        ELSE IF answer.k = "error"
        THEN [online |-> FALSE, data |-> None, gets |-> made]
        ELSE APIClient_fallback_health_check(made, root_transport)

\* APIClient.health_check: GET /health; on any other status and on an
\* exception, the fallback.  The value is the returned pair with the GET
\* calls that were made.
APIClient_health_check(health_transport, root_transport) ==
    LET answer == Fetch([k |-> "get", path |-> "/health"], health_transport)
        made == <<[path |-> "/health", answer |-> answer]>>
    IN  IF Status200(answer)
        THEN [online |-> TRUE, data |-> answer.body, gets |-> made]
        ELSE APIClient_fallback_health_check(made, root_transport)

\* health_data.get(key, default) if health_data else default
HealthGet(health_data, key, default) ==
    IF health_data = None THEN default
    ELSE IF key \in DOMAIN health_data THEN health_data[key]
    ELSE default

\* The route /api/status.
api_status(health_transport, root_transport) ==
    LET health == APIClient_health_check(health_transport, root_transport)
    IN  dashboard' =
            [route |-> "/api/status", health |-> health,
             reply |->
                [success |-> TRUE,
                 api_online |-> health.online,
                 neural_model_loaded |-> HealthGet(health.data, "model_loaded", TRUE),
                 available_teams |->
                     HealthGet(health.data, "available_teams_count", 774),
                 available_divisions |->
                     HealthGet(health.data, "available_divisions_count", 38)]]

ApiStatus ==
    /\ lifespan = "serving"
    /\ dashboard = NoCall
    /\ \E health_transport \in GetTransports, root_transport \in GetTransports :
           api_status(health_transport, root_transport)
    /\ UNCHANGED <<lifespan, service, request, frame, response, evaluations,
                   earlier, client, load_return, page>>

\* APIClient._get_demo_divisions
APIClient_get_demo_divisions ==
    << <<"E2", "English League One">>, <<"DEN", "Liga Dinamarca">>,
       <<"F2", "Ligue 2 (Francia)">>, <<"EC", "National League">>,
       <<"I1", "Serie A (Italia)">> >>

\* demo_teams of APIClient._get_demo_teams
demo_teams ==
    << <<"E2", <<"Leeds", "Southampton", "West Brom", "Norwich", "Middlesbrough">> >>,
       <<"DEN", <<"Copenhagen", "Midtjylland", "Brondby", "Aarhus", "Vejle">> >>,
       <<"F2", <<"Saint-Etienne", "Metz", "Bordeaux", "Grenoble", "Paris FC">> >>,
       <<"EC", <<"Barcelona SC", "Emelec", "Independiente", "LDU Quito", "Aucas">> >>,
       <<"I1", <<"Inter", "Milan", "Juventus", "Roma", "Napoli">> >> >>

\* A Python list, a Python dict, and list(set(...)): a list of the members
\* of a set in an order that is not determined.
List(items) == [k |-> "list", items |-> items]
Dict(pairs) == [k |-> "dict", pairs |-> pairs]
ListOfSet(members) == [k |-> "list", members |-> members]

\* Variant: the demo teams of every division, whatever is asked for.
APIClient_get_demo_teams_all(division) ==
    ListOfSet(UNION {{demo_teams[i][2][j] : j \in DOMAIN demo_teams[i][2]} :
                        i \in DOMAIN demo_teams})

\* APIClient._get_demo_teams; division is "" for None and for the empty
\* string.
APIClient_get_demo_teams(division) ==
    IF division # "" /\ DictHas(demo_teams, division)
    THEN List(DictGet(demo_teams, division))
    ELSE ListOfSet(UNION {{demo_teams[i][2][j] : j \in DOMAIN demo_teams[i][2]} :
                             i \in DOMAIN demo_teams})

\* APIClient.get_available_divisions: the value returned, with the GET
\* call that was made.  Whatever is raised inside the try is caught by
\* `except Exception`, and the fallback raises nothing.
APIClient_get_available_divisions(transport) ==
    LET answer == Fetch([k |-> "get", path |-> "/divisions"], transport)
    IN  [gets |-> <<[path |-> "/divisions", answer |-> answer]>>,
         raised |-> FALSE,
         result |-> IF Status200(answer) /\ answer.body.success
                    THEN Dict(answer.body.divisions)
                    ELSE Dict(APIClient_get_demo_divisions)]

\* APIClient.get_available_teams
APIClient_get_available_teams(division, transport) ==
    LET answer == Fetch([k |-> "get", path |-> "/teams", division |-> division],
                        transport)
    IN  [gets |-> <<[path |-> "/teams", answer |-> answer]>>,
         raised |-> FALSE,
         result |-> IF Status200(answer) /\ answer.body.success
                    THEN List(answer.body.teams)
                    ELSE APIClient_get_demo_teams(division)]

\* The divisions the dashboard asks teams for: none, two of the demo data
\* (one of them also a division of the service), one of the service only,
\* one that nobody knows.
ClientDivisions == {"", "I1", "E2", "SP1", "XX"}

GetAvailableDivisions ==
    /\ lifespan = "serving"
    /\ dashboard = NoCall
    /\ \E transport \in ListTransports :
           dashboard' = [route |-> "get_available_divisions",
                         call |-> APIClient_get_available_divisions(transport)]
    /\ UNCHANGED <<lifespan, service, request, frame, response, evaluations,
                   earlier, client, load_return, page>>

GetAvailableTeams ==
    /\ lifespan = "serving"
    /\ dashboard = NoCall
    /\ \E division \in ClientDivisions, transport \in ListTransports :
           dashboard' = [route |-> "get_available_teams", division |-> division,
                         call |-> APIClient_get_available_teams(division, transport)]
    /\ UNCHANGED <<lifespan, service, request, frame, response, evaluations,
                   earlier, client, load_return, page>>

NextFallback ==
    \/ StartupDashboard \/ ApiStatus \/ GetAvailableDivisions
    \/ GetAvailableTeams \/ DashboardDone

SpecFallback == Init /\ [][NextFallback]_vars

(***************************************************************************)
(* Vocabulary of the properties.                                           *)
(***************************************************************************)
\* A request has been handled and its answer is at hand.
Answered == response # NoResponse

\* The error kinds of the specification, read off an answer.  The service
\* has no message for identical teams; the one of the dashboard is used.
ErrorKind(resp) ==
    IF resp.k # "error" THEN "none"
    ELSE CASE resp.detail.msg = "Equipo no encontrado" -> "UnknownTeam"
           [] resp.detail.msg = "Division no encontrada" -> "UnknownDivision"
           [] resp.detail.msg = "Los equipos deben ser diferentes" -> "IdenticalTeams"
           [] resp.detail.msg = "Modelo no cargado. Servicio no disponible."
                -> "ServiceUnavailable"
           [] OTHER -> "PredictionError"

HomeResolves == DictHas(team_mapping, request.home_team)
AwayResolves == DictHas(team_mapping, request.away_team)
DivisionResolves == DictHas(division_mapping, request.division)
SameTeams == request.home_team = request.away_team

ViolatesTeams == ~HomeResolves \/ ~AwayResolves
ViolatesDivision == ~DivisionResolves
ViolatesEquality == SameTeams

ViolationCount ==
    (IF ViolatesTeams THEN 1 ELSE 0) + (IF ViolatesDivision THEN 1 ELSE 0)
        + (IF ViolatesEquality THEN 1 ELSE 0)

\* The elements of a sequence.
Elems(seq) == {seq[i] : i \in DOMAIN seq}

\* The three values of a body field such as probabilities or odds.
Triple(rec) == <<rec.home_win, rec.draw, rec.away_win>>

MarginInRange(m) == FloatLe(Zero, m) /\ FloatLt(m, One)

\* A ProbabilityVector of the specification: each component in (0, 1], sum 1.
ValidProbabilities(p) ==
    /\ \A i \in 1..3 : FloatLt(Zero, p[i]) /\ FloatLe(p[i], One)
    /\ FloatAdd(FloatAdd(p[1], p[2]), p[3]) = One

(***************************************************************************)
(* C1.  On a loaded service, a request that violates more than one of the  *)
(* three preconditions (teams resolve, division resolves, home # away) is  *)
(* answered with the error of the earliest violated one, in the order      *)
(* teams, division, equality.                                              *)
(***************************************************************************)
C1_ValidationOrder ==
    (Answered /\ is_loaded /\ ViolationCount >= 2) =>
        ErrorKind(response) =
            IF ViolatesTeams THEN "UnknownTeam"
            ELSE IF ViolatesDivision THEN "UnknownDivision"
            ELSE "IdenticalTeams"

\* A request that violates all three preconditions has been answered.
C1_Witness ==
    /\ Answered /\ is_loaded
    /\ ViolatesTeams /\ ViolatesDivision /\ ViolatesEquality
    /\ ErrorKind(response) = "UnknownTeam"

(***************************************************************************)
(* C2.  A request whose home and away team are the same registry team is   *)
(* answered with IdenticalTeams, and with no odds, whatever the division   *)
(* and the margin.  Stated for the requests with nothing else wrong (the   *)
(* division resolves, the margin is in [0, 1), the network accepts the     *)
(* features), where no other error can stand in for it.                    *)
(***************************************************************************)
C2_IdenticalTeamsRejected ==
    (/\ Answered /\ is_loaded /\ SameTeams /\ HomeResolves
     /\ DivisionResolves /\ MarginInRange(request.house_margin)
     /\ ~ModelRaises(model)) =>
        /\ response.k = "error"
        /\ ErrorKind(response) = "IdenticalTeams"

(***************************************************************************)
(* C3.  A probability vector with a component <= 0 is rejected             *)
(* (InvalidProbability): no result bundle is returned for it, so every     *)
(* returned bundle has three positive probabilities and finite odds.       *)
(* Stated for requests with two different teams and a margin in [0, 1).    *)
(***************************************************************************)
C3_NonPositiveProbabilityRejected ==
    (/\ Answered /\ response.k = "ok"
     /\ ~SameTeams /\ MarginInRange(request.house_margin)) =>
        \A i \in 1..3 :
            /\ FloatLt(Zero, Triple(response.body.probabilities)[i])
            /\ IsFin(Triple(response.body.odds)[i])

(***************************************************************************)
(* C4.  A margin outside [0, 1) is rejected (InvalidMargin): no result     *)
(* bundle is returned for it.  Stated for requests with two different      *)
(* teams whose probabilities are all positive.                             *)
(***************************************************************************)
C4_MarginOutsideRangeRejected ==
    (/\ Answered /\ response.k = "ok" /\ ~SameTeams
     /\ \A i \in 1..3 : FloatLt(Zero, Triple(response.body.probabilities)[i])) =>
        MarginInRange(request.house_margin)

(***************************************************************************)
(* C5.  As claimed: for a valid probability vector and a margin in [0, 1), *)
(* every returned odd is strictly greater than 1.                          *)
(***************************************************************************)
C5_OddsAboveOne ==
    (/\ Answered /\ response.k = "ok"
     /\ ValidProbabilities(Triple(response.body.probabilities))
     /\ MarginInRange(request.house_margin)) =>
        \A i \in 1..3 : FloatLt(One, Triple(response.body.odds)[i])

(***************************************************************************)
(* C5, amended.  For a valid probability vector and a margin in [0, 1),    *)
(* every returned odd is strictly positive, and it is greater than 1       *)
(* exactly when its probability is below 1 - margin.                       *)
(***************************************************************************)
C5_OddsPositive ==
    (/\ Answered /\ response.k = "ok"
     /\ ValidProbabilities(Triple(response.body.probabilities))
     /\ MarginInRange(request.house_margin)) =>
        \A i \in 1..3 :
            LET odd == Triple(response.body.odds)[i]
                p == Triple(response.body.probabilities)[i]
            IN  /\ FloatLt(Zero, odd)
                /\ FloatLt(One, odd)
                       <=> FloatLt(p, FloatSub(One, request.house_margin))

\* A valid vector and a margin in (0, 1) gave odds that are not above 1.
C5_Witness ==
    /\ Answered /\ response.k = "ok"
    /\ ValidProbabilities(Triple(response.body.probabilities))
    /\ MarginInRange(request.house_margin)
    /\ FloatLt(Zero, request.house_margin)
    /\ \E i \in 1..3 : FloatLe(Triple(response.body.odds)[i], One)

(***************************************************************************)
(* C6.  On a loaded service, a request with a team that is not a key of    *)
(* the team registry is answered with UnknownTeam for one of its unknown   *)
(* teams, with at most 3 suggestions, each a team of the registry whose    *)
(* lower-cased name contains the lower-cased requested name.               *)
(***************************************************************************)
C6_UnknownTeamSuggestions ==
    (Answered /\ is_loaded /\ ViolatesTeams) =>
        /\ ErrorKind(response) = "UnknownTeam"
        /\ response.detail.team \in {request.home_team, request.away_team}
        /\ ~DictHas(team_mapping, response.detail.team)
        /\ Len(response.detail.suggestions) <= 3
        /\ \A i \in DOMAIN response.detail.suggestions :
               LET suggested == response.detail.suggestions[i]
               IN  /\ suggested \in Elems(available_teams)
                   /\ StrIn(lower(response.detail.team), lower(suggested))

\* An unknown team drew three suggestions, matched across letter case.
C6_Witness ==
    /\ Answered /\ is_loaded
    /\ ErrorKind(response) = "UnknownTeam"
    /\ response.detail.team = LetterA
    /\ Len(response.detail.suggestions) = 3
    /\ Len(available_teams) > 3

(***************************************************************************)
(* C7.  As claimed: with "Real Madrid" and "Barcelona" in the registry,    *)
(* the request ("Raal Madrid", "Barcelona", "SP1") is answered with        *)
(* UnknownTeam and "Real Madrid" is among the suggestions.                 *)
(***************************************************************************)
RaalMadridRequest ==
    /\ Answered /\ is_loaded
    /\ {RealMadrid, Barcelona} \subseteq Elems(DictKeys(team_mapping))
    /\ {RealMadrid, Barcelona} \subseteq Elems(available_teams)
    /\ request.home_team = RaalMadrid
    /\ request.away_team = Barcelona
    /\ request.division = "SP1"

C7_RaalMadridSuggestsRealMadrid ==
    RaalMadridRequest =>
        /\ ErrorKind(response) = "UnknownTeam"
        /\ RealMadrid \in Elems(response.detail.suggestions)

(***************************************************************************)
(* C7, amended.  That request is answered with UnknownTeam for             *)
(* "Raal Madrid", and "Real Madrid" is not among the suggestions: "raal    *)
(* madrid" is not a substring of "real madrid".                            *)
(***************************************************************************)
C7_RaalMadridNotMatched ==
    RaalMadridRequest =>
        /\ ErrorKind(response) = "UnknownTeam"
        /\ response.detail.team = RaalMadrid
        /\ RealMadrid \notin Elems(response.detail.suggestions)

\* The request has been answered by a service that knows both teams.
C7_Witness ==
    RaalMadridRequest /\ response.k = "error" /\ response.status_code = 400

(***************************************************************************)
(* C8.  As claimed: when both teams resolve and the division is not a key  *)
(* of the division registry, the answer is UnknownDivision and carries     *)
(* the list of the registry's division codes.                              *)
(***************************************************************************)
C8_UnknownDivisionListsAllCodes ==
    (Answered /\ is_loaded /\ ~ViolatesTeams /\ ViolatesDivision) =>
        /\ ErrorKind(response) = "UnknownDivision"
        /\ response.detail.available = DictKeys(division_mapping)

(***************************************************************************)
(* C8, amended.  ... the answer is UnknownDivision and carries the first   *)
(* 10 division codes of the registry, in registry order (all of them when  *)
(* the registry has at most 10).                                           *)
(***************************************************************************)
C8_UnknownDivisionListsFirstTen ==
    (Answered /\ is_loaded /\ ~ViolatesTeams /\ ViolatesDivision) =>
        LET listed == response.detail.available
            codes == DictKeys(division_mapping)
        IN  /\ ErrorKind(response) = "UnknownDivision"
            /\ Len(listed) = IF Len(codes) < 10 THEN Len(codes) ELSE 10
            /\ \A i \in 1..Len(listed) : listed[i] = codes[i]

\* An unknown division was answered by a registry of more than 10 codes.
C8_Witness ==
    /\ Answered /\ is_loaded /\ ~ViolatesTeams /\ ViolatesDivision
    /\ Len(division_mapping) > 10
    /\ Len(response.detail.available) = 10

(***************************************************************************)
(* C9.  When every probability is > 0, the fair odds computed by predict   *)
(* are the reciprocals: fair_odds[i] * p[i] = 1 for the three outcomes.    *)
(***************************************************************************)
C9_FairOddsReciprocal ==
    (/\ Answered /\ frame # NoFrame
     /\ \A i \in 1..3 : FloatLt(Zero, frame.probabilities[i])) =>
        \A i \in 1..3 :
            /\ IsFin(frame.fair_odds[i])
            /\ frame.fair_odds[i].n * frame.probabilities[i].n
                   = frame.fair_odds[i].d * frame.probabilities[i].d

\* predict computed fair odds from three positive, unequal probabilities.
C9_Witness ==
    /\ Answered /\ frame # NoFrame
    /\ \A i \in 1..3 : FloatLt(Zero, frame.probabilities[i])
    /\ frame.probabilities[1] # frame.probabilities[2]

(***************************************************************************)
(* C10.  For finite positive fair odds and a margin in [0, 1), the         *)
(* bookmaker odds are fair_odds[i] * (1 - margin): equal to the fair odds  *)
(* when margin = 0, strictly less when margin > 0.                         *)
(***************************************************************************)
C10_HouseMarginFactor ==
    (/\ Answered /\ frame # NoFrame
     /\ \A i \in 1..3 : IsFin(frame.fair_odds[i]) /\ FloatLt(Zero, frame.fair_odds[i])
     /\ MarginInRange(request.house_margin)) =>
        \A i \in 1..3 :
            LET fair == frame.fair_odds[i]
                odd == Triple(response.body.odds)[i]
                m == request.house_margin
            IN  /\ IsFin(odd)
                \* odd = fair * (1 - m), as odd / fair = 1 - m
                /\ FloatMul(odd, FloatRecip(fair)) = FloatSub(One, m)
                /\ (m = Zero) => odd = fair
                /\ FloatLt(Zero, m) => FloatLt(odd, fair)

\* Fair odds were shrunk by a margin strictly between 0 and 1.
C10_Witness ==
    /\ Answered /\ frame # NoFrame
    /\ \A i \in 1..3 : IsFin(frame.fair_odds[i]) /\ FloatLt(Zero, frame.fair_odds[i])
    /\ MarginInRange(request.house_margin)
    /\ FloatLt(Zero, request.house_margin)
    /\ response.k = "ok"

(***************************************************************************)
(* C11.  In every successful prediction the implied probability sum is     *)
(* the sum of the reciprocals of the three returned odds, actual_margin is *)
(* (implied_prob_sum - 1) * 100, and house_edge equals actual_margin.      *)
(***************************************************************************)
C11_MarginReport ==
    (Answered /\ response.k = "ok") =>
        LET bookmaker == Triple(response.body.odds)
            sum == FloatAdd(FloatAdd(FloatRecip(bookmaker[1]),
                                     FloatRecip(bookmaker[2])),
                            FloatRecip(bookmaker[3]))
        IN  /\ frame.implied_prob_sum = sum
            /\ response.body.actual_margin =
                   FloatMul(FloatAdd(sum, Fin(-1, 1)), Fin(100, 1))
            /\ response.body.house_edge = response.body.actual_margin

\* A prediction with finite positive odds and a margin report that is
\* neither 0 nor the implied sum less 1.
C11_Witness ==
    /\ Answered /\ response.k = "ok"
    /\ \A i \in 1..3 : IsFin(Triple(response.body.odds)[i])
                       /\ FloatLt(Zero, Triple(response.body.odds)[i])
    /\ IsFin(response.body.actual_margin)
    /\ response.body.actual_margin # Zero
    /\ response.body.house_edge # FloatSub(frame.implied_prob_sum, One)

(***************************************************************************)
(* Vocabulary of the margin properties.                                    *)
(***************************************************************************)
\* The tolerance the specification suggests for the sum of a vector.
Tolerance == Fin(1, 1000)

ProbabilitySum(p) == FloatAdd(FloatAdd(p[1], p[2]), p[3])

PositiveProbabilities(p) == \A i \in 1..3 : IsFin(p[i]) /\ FloatLt(Zero, p[i])

\* | sum - 1 | <= Tolerance
WithinTolerance(p) ==
    /\ FloatLe(FloatSub(One, Tolerance), ProbabilitySum(p))
    /\ FloatLe(ProbabilitySum(p), FloatAdd(One, Tolerance))

\* 0 < m < 1
MarginInside(m) == FloatLt(Zero, m) /\ FloatLt(m, One)

(***************************************************************************)
(* C12.  As claimed: for every vector with positive components whose sum   *)
(* is within the tolerance of 1 and every margin in (0, 1), the            *)
(* actual_margin of a successful prediction is strictly positive.          *)
(***************************************************************************)
C12_MarginPositiveWithinTolerance ==
    (/\ Answered /\ response.k = "ok"
     /\ PositiveProbabilities(frame.probabilities)
     /\ WithinTolerance(frame.probabilities)
     /\ MarginInside(request.house_margin)) =>
        FloatLt(Zero, response.body.actual_margin)

(***************************************************************************)
(* C12, amended.  For every vector with positive components and every      *)
(* margin in (0, 1), the actual_margin of a successful prediction is       *)
(* strictly positive exactly when the sum of the vector exceeds            *)
(* 1 - margin; in particular whenever the sum is exactly 1.                *)
(***************************************************************************)
C12_MarginPositiveAboveDeficit ==
    (/\ Answered /\ response.k = "ok"
     /\ PositiveProbabilities(frame.probabilities)
     /\ MarginInside(request.house_margin)) =>
        /\ FloatLt(Zero, response.body.actual_margin) <=>
               FloatLt(FloatSub(One, request.house_margin),
                       ProbabilitySum(frame.probabilities))
        /\ (ProbabilitySum(frame.probabilities) = One) =>
               FloatLt(Zero, response.body.actual_margin)

\* A vector that sums to a little less than 1, with a margin that exceeds
\* what is missing, got a positive actual_margin.
C12_Witness ==
    /\ Answered /\ response.k = "ok"
    /\ PositiveProbabilities(frame.probabilities)
    /\ WithinTolerance(frame.probabilities)
    /\ FloatLt(ProbabilitySum(frame.probabilities), One)
    /\ MarginInside(request.house_margin)
    /\ FloatLt(Zero, response.body.actual_margin)

\* The caller kept an earlier successful prediction and a later one for the
\* same probabilities is at hand, both with margins in (0, 1).
SameProbabilitiesTwice ==
    /\ Answered /\ response.k = "ok"
    /\ earlier # None /\ earlier.response.k = "ok"
    /\ earlier.frame.probabilities = frame.probabilities
    /\ PositiveProbabilities(frame.probabilities)
    /\ MarginInside(earlier.request.house_margin)
    /\ MarginInside(request.house_margin)

(***************************************************************************)
(* C13.  Of two successful predictions for the same positive probabilities *)
(* with margins in (0, 1), the one with the smaller margin reports the     *)
(* strictly smaller actual_margin, whichever of the two was made first.    *)
(***************************************************************************)
C13_MarginMonotonic ==
    SameProbabilitiesTwice =>
        /\ FloatLt(earlier.request.house_margin, request.house_margin) =>
               FloatLt(earlier.response.body.actual_margin,
                       response.body.actual_margin)
        /\ FloatLt(request.house_margin, earlier.request.house_margin) =>
               FloatLt(response.body.actual_margin,
                       earlier.response.body.actual_margin)

\* The second prediction used the larger margin and reports the larger
\* actual_margin.
C13_Witness ==
    /\ SameProbabilitiesTwice
    /\ FloatLt(earlier.request.house_margin, request.house_margin)
    /\ FloatLt(earlier.response.body.actual_margin, response.body.actual_margin)

\* | x - target | < half, for finite x
Near(x, target, half) ==
    /\ IsFin(x)
    /\ FloatLt(FloatSub(target, half), x)
    /\ FloatLt(x, FloatAdd(target, half))

\* The network returned (1/3, 1/3, 1/3) and the request carried margin 0.12.
ThirdsAtDefaultMargin ==
    /\ Answered /\ response.k = "ok"
    /\ frame.probabilities = <<Fin(1, 3), Fin(1, 3), Fin(1, 3)>>
    /\ request.house_margin = Fin(12, 100)

(***************************************************************************)
(* C14.  For probabilities (1/3, 1/3, 1/3) and margin 0.12 the fair odds   *)
(* are 3.0, the returned odds 2.64, the implied probability sum 1.1364     *)
(* and the actual_margin 13.64, each to the digits shown.                  *)
(***************************************************************************)
C14_ThirdsExample ==
    ThirdsAtDefaultMargin =>
        /\ \A i \in 1..3 : Near(frame.fair_odds[i], Fin(3, 1), Fin(5, 100))
        /\ \A i \in 1..3 :
               Near(Triple(response.body.odds)[i], Fin(264, 100), Fin(5, 1000))
        /\ Near(frame.implied_prob_sum, Fin(11364, 10000), Fin(5, 100000))
        /\ Near(response.body.actual_margin, Fin(1364, 100), Fin(5, 1000))

\* The example has been computed: the returned odds are 66/25.
C14_Witness ==
    /\ ThirdsAtDefaultMargin
    /\ Triple(response.body.odds) = <<Fin(66, 25), Fin(66, 25), Fin(66, 25)>>

(***************************************************************************)
(* C15.  No prediction succeeds for a vector with positive components      *)
(* whose sum differs from 1 by more than the tolerance: such a vector is   *)
(* rejected and no odds are returned for it.  Stated for the requests with *)
(* nothing else wrong (two different teams, a margin in [0, 1)).           *)
(***************************************************************************)
C15_SumBeyondToleranceRejected ==
    (/\ Answered /\ response.k = "ok"
     /\ ~SameTeams /\ MarginInRange(request.house_margin)
     /\ PositiveProbabilities(frame.probabilities)) =>
        WithinTolerance(frame.probabilities)

\* The fields of a PredictionResponse besides its envelope (success, message).
ResultFields(body) == DOMAIN body \ {"success", "message"}

Outcomes == {"home_win", "draw", "away_win"}

(***************************************************************************)
(* C16.  A successful prediction result has, besides the success flag and  *)
(* the message of its envelope, exactly the fields home_team, away_team,   *)
(* division_full_name, probabilities, odds, house_margin, actual_margin    *)
(* and house_edge: the teams and the margin of the request, the display    *)
(* name of the division, three probabilities and three odds.  The odds     *)
(* field holds the bookmaker odds, which differ from the fair odds         *)
(* whenever those are finite and the margin is not 0; no field holds the   *)
(* fair odds.                                                              *)
(***************************************************************************)
C16_ResultFields ==
    (Answered /\ response.k = "ok") =>
        LET body == response.body
        IN  /\ ResultFields(body) =
                   {"home_team", "away_team", "division_full_name",
                    "probabilities", "odds", "house_margin", "actual_margin",
                    "house_edge"}
            /\ body.success = TRUE
            /\ body.home_team = request.home_team
            /\ body.away_team = request.away_team
            /\ body.division_full_name =
                   IF request.division \in DOMAIN league_mapping
                   THEN league_mapping[request.division]
                   ELSE request.division
            /\ DOMAIN body.probabilities = Outcomes
            /\ DOMAIN body.odds = Outcomes
            /\ Triple(body.odds) = frame.odds
            /\ body.house_margin = request.house_margin
            /\ body.actual_margin = frame.actual_margin
            /\ body.house_edge = frame.house_edge
            /\ \A i \in 1..3 :
                   (/\ IsFin(frame.fair_odds[i])
                    /\ request.house_margin # Zero) =>
                       Triple(body.odds)[i] # frame.fair_odds[i]

\* A result whose fair odds are finite and differ from every value it
\* carries as odds.
C16_Witness ==
    /\ Answered /\ response.k = "ok"
    /\ \A i \in 1..3 : IsFin(frame.fair_odds[i])
    /\ MarginInside(request.house_margin)
    /\ \A i \in 1..3 : FloatLt(Triple(response.body.odds)[i], frame.fair_odds[i])
    /\ response.body.division_full_name = "La Liga (Espana)"

(***************************************************************************)
(* C17.  The probabilities of a successful prediction result are the three *)
(* values the network returned for the features of the request, unchanged  *)
(* and in the order home_win, draw, away_win; each returned odd is derived *)
(* from the unchanged value: odd * probability = 1 - margin for every      *)
(* positive probability.                                                   *)
(***************************************************************************)
C17_NoRenormalization ==
    (Answered /\ response.k = "ok") =>
        LET supplied == ModelPredict(model, frame.features)
            body == response.body
        IN  /\ body.probabilities.home_win = supplied[1]
            /\ body.probabilities.draw = supplied[2]
            /\ body.probabilities.away_win = supplied[3]
            /\ \A i \in 1..3 :
                   FloatLt(Zero, supplied[i]) =>
                       FloatMul(Triple(body.odds)[i], supplied[i]) =
                           FloatSub(One, request.house_margin)

\* The network returned three different positive values that do not sum
\* to 1, and the result carries them.
C17_Witness ==
    /\ Answered /\ response.k = "ok"
    /\ PositiveProbabilities(frame.probabilities)
    /\ ProbabilitySum(frame.probabilities) # One
    /\ response.body.probabilities.home_win # response.body.probabilities.draw
    /\ response.body.probabilities.draw # response.body.probabilities.away_win
    /\ response.body.probabilities.home_win # response.body.probabilities.away_win
    /\ Triple(response.body.probabilities) = ModelPredict(model, frame.features)

\* The request at hand repeats the one the caller kept.
Repeated ==
    /\ Answered
    /\ earlier # None /\ earlier.calls_since >= 1
    /\ request = earlier.request

(***************************************************************************)
(* C18.  A POST /predict that repeats an earlier one gets the answer the   *)
(* earlier one got, result or error, however many other requests were      *)
(* handled in between.                                                     *)
(***************************************************************************)
C18_Idempotent == Repeated => response = earlier.response

\* A prediction was repeated after another request had been handled in
\* between, and the same result came back.
C18_Witness ==
    /\ Repeated /\ earlier.calls_since >= 2
    /\ response.k = "ok" /\ response = earlier.response

\* So was a request that fails.
C18_WitnessError ==
    /\ Repeated /\ earlier.calls_since >= 2
    /\ response.k = "error" /\ response = earlier.response

(***************************************************************************)
(* C19.  Once the service takes requests, no step changes the attributes   *)
(* of predictor_api: every POST /predict, successful or failing, leaves    *)
(* the model, the scaler, the encoders, team_mapping, division_mapping,    *)
(* available_teams and is_loaded as they were (league_mapping is never     *)
(* assigned after __init__ and is a constant here).                        *)
(***************************************************************************)
C19_PredictWritesNothing ==
    [][lifespan = "serving" => service' = service]_vars

\* After a successful call and at least one more call, a failing call has
\* been handled on a service whose registries are loaded.
C19_Witness ==
    /\ Answered /\ response.k = "error"
    /\ earlier # None /\ earlier.calls_since >= 2
    /\ earlier.response.k = "ok"
    /\ is_loaded /\ available_teams # <<>>
    /\ team_mapping # <<>> /\ division_mapping # <<>>

(***************************************************************************)
(* C20.  One call of APIClient.predict_match makes one POST to /predict    *)
(* and the service evaluates the network at most once for it; a call whose *)
(* POST fails (an exception of the transport, or an answer other than 200) *)
(* returns None to its caller after that one POST and at most one          *)
(* evaluation.                                                             *)
(***************************************************************************)
C20_NoRetry ==
    (client # NoCall) =>
        /\ client.posts = 1
        /\ evaluations <= 1
        /\ (client.transport # "delivered" \/ response.k = "error") =>
               client.result = None
        /\ (client.transport = "delivered" /\ response.k = "ok") =>
               client.result = response.body
        /\ (client.transport = "ConnectionError") => evaluations = 0

\* The network raised on its one evaluation, the service answered 500 and
\* the client returned None after its one POST.
C20_Witness ==
    /\ client # NoCall /\ client.transport = "delivered"
    /\ response.k = "error" /\ response.status_code = 500
    /\ evaluations = 1
    /\ client.posts = 1
    /\ client.result = None

\* The page shows the results of a prediction.
ResultsShown == page # NoPage /\ page.k = "results"

(***************************************************************************)
(* C21.  The percentages shown as "Margen de la Casa" and "House Edge"     *)
(* are (implied_prob_sum - 1) * 100, to two decimals: the value that       *)
(* predict computed, not that value multiplied by 100 once more.           *)
(***************************************************************************)
C21_MarginShownOnce ==
    ResultsShown =>
        LET percent == FloatMul(FloatSub(frame.implied_prob_sum, One), Hundred)
        IN  /\ page.margen_de_la_casa = toFixed(percent, 2)
            /\ page.house_edge = toFixed(percent, 2)

(***************************************************************************)
(* C22.  After any sequence of load_model calls, is_loaded is true only if *)
(* the model, the scaler, team_mapping, division_mapping and               *)
(* available_teams are set, and is_loaded equals what the most recent      *)
(* call returned: a call that returned False leaves is_loaded false.       *)
(***************************************************************************)
C22_LoadedIffLastLoadReturnedTrue ==
    (load_return # None) =>
        /\ is_loaded => (/\ model # None /\ scaler # None
                         /\ team_mapping # <<>> /\ division_mapping # <<>>)
        /\ is_loaded = load_return.value

(***************************************************************************)
(* C23.  While is_loaded is false, POST /predict is answered 503 whatever  *)
(* the teams and the division are, known or not; GET /teams and            *)
(* GET /team-suggestions are answered 503; GET /divisions is answered 200  *)
(* with success and the five basic divisions.                              *)
(***************************************************************************)
C23_UnloadedService ==
    (Answered /\ ~is_loaded) =>
        CASE request.k = "request" ->
                 /\ response.k = "error" /\ response.status_code = 503
                 /\ ErrorKind(response) = "ServiceUnavailable"
          [] request.k = "get" /\ request.path \in {"/teams", "/team-suggestions"} ->
                 response.k = "error" /\ response.status_code = 503
          [] request.k = "get" /\ request.path = "/divisions" ->
                 /\ response.k = "ok" /\ response.status_code = 200
                 /\ response.body.success = TRUE
                 /\ response.body.total = 5
                 /\ DictKeys(response.body.divisions) =
                        <<"SP1", "E0", "I1", "D1", "F1">>
          [] OTHER -> response.k = "ok"

\* An unloaded service whose registries were read from the encoders file
\* before the load failed answered 503 to a request with an unknown team.
C23_Witness ==
    /\ Answered /\ ~is_loaded
    /\ request.k = "request"
    /\ team_mapping # <<>> /\ ~HomeResolves
    /\ response.k = "error" /\ response.status_code = 503

\* A POST /api/predict has been handled by the dashboard.
PredictReplied == dashboard # NoCall /\ dashboard.route = "/api/predict"

\* A required key of the posted body is absent or empty.
FieldMissing ==
    \/ Missing(dashboard.data, "home_team") \/ Missing(dashboard.data, "away_team")
    \/ Missing(dashboard.data, "division")

\* No APIClient.predict_match call was made and nothing reached the service.
NothingSent == client = NoCall /\ request = NoRequest /\ evaluations = 0

(***************************************************************************)
(* C24.  api_predict sends nothing to the neural API when home_team,       *)
(* away_team or division is missing or empty, or when home_team equals     *)
(* away_team: it replies success = false with the error of the missing     *)
(* data in the first case, also when the teams are identical as well, and  *)
(* with the error of the identical teams in the second.                    *)
(***************************************************************************)
C24_ValidationBeforeCall ==
    PredictReplied =>
        /\ FieldMissing =>
               /\ NothingSent
               /\ dashboard.reply =
                      [success |-> FALSE,
                       error |-> "Faltan datos requeridos: home_team, away_team, division"]
        /\ (~FieldMissing /\ dashboard.data.home_team = dashboard.data.away_team) =>
               /\ NothingSent
               /\ dashboard.reply =
                      [success |-> FALSE, error |-> "Los equipos deben ser diferentes"]

\* A body with the same team twice and no division got the error of the
\* missing data, and nothing was sent.
C24_Witness ==
    /\ PredictReplied
    /\ dashboard.data.home_team = dashboard.data.away_team
    /\ dashboard.data.home_team # <<>>
    /\ Missing(dashboard.data, "division")
    /\ NothingSent
    /\ dashboard.reply.success = FALSE

\* The service answered the POST of the dashboard with a status other
\* than 200.
RefusedUpstream ==
    /\ PredictReplied
    /\ client # NoCall
    /\ client.transport = "delivered"
    /\ response # NoResponse
    /\ response.status_code # 200

(***************************************************************************)
(* C28.  When POST /predict answers with a status other than 200, the 400  *)
(* of an unknown team with its suggestions and the 400 of an unknown       *)
(* division included, APIClient.predict_match returns None and api_predict *)
(* replies success = false with the fixed error of the unavailable         *)
(* network: the detail and the suggestions of the service are not in the   *)
(* reply.                                                                  *)
(***************************************************************************)
C28_UpstreamErrorHidden ==
    RefusedUpstream =>
        /\ client.result = None
        /\ dashboard.reply =
               [success |-> FALSE,
                error |-> "La red neuronal no esta disponible en este momento"]

\* The service refused an unknown home team and suggested a similar one;
\* the dashboard replied with the fixed error.
C28_Witness ==
    /\ RefusedUpstream
    /\ response.status_code = 400
    /\ ErrorKind(response) = "UnknownTeam"
    /\ response.detail.suggestions # <<>>
    /\ dashboard.reply.success = FALSE

\* The service refused an unknown division; the dashboard replied with the
\* fixed error.
C28_WitnessDivision ==
    /\ RefusedUpstream
    /\ ErrorKind(response) = "UnknownDivision"
    /\ dashboard.reply.success = FALSE

\* The route /api/status has answered.
StatusReplied == dashboard # NoCall /\ dashboard.route = "/api/status"

\* The GET calls of the health check that went to a path.
GetsTo(path) ==
    {i \in DOMAIN dashboard.health.gets : dashboard.health.gets[i].path = path}

C25_WitnessOffline ==
    /\ StatusReplied
    /\ Len(dashboard.health.gets) = 2
    /\ ~dashboard.health.online
    /\ dashboard.health.data = None

(***************************************************************************)
(* C26.  Whenever the reply of /api/status has api_online false, it has    *)
(* neural_model_loaded false.                                              *)
(***************************************************************************)
C26_OfflineMeansNotLoaded ==
    StatusReplied =>
        (~dashboard.reply.api_online => ~dashboard.reply.neural_model_loaded)

\* The remote call of a list call failed: an exception, another status
\* than 200, or success false in the body.
RemoteFailed(call) ==
    LET answer == call.gets[1].answer
    IN  \/ answer.k = "exception"
        \/ ~Status200(answer)
        \/ ~answer.body.success

\* The union of the demo teams of all divisions.
AllDemoTeams ==
    {"Leeds", "Southampton", "West Brom", "Norwich", "Middlesbrough",
     "Copenhagen", "Midtjylland", "Brondby", "Aarhus", "Vejle",
     "Saint-Etienne", "Metz", "Bordeaux", "Grenoble", "Paris FC",
     "Barcelona SC", "Emelec", "Independiente", "LDU Quito", "Aucas",
     "Inter", "Milan", "Juventus", "Roma", "Napoli"}

DivisionsCalled == dashboard # NoCall /\ dashboard.route = "get_available_divisions"
TeamsCalled == dashboard # NoCall /\ dashboard.route = "get_available_teams"

(***************************************************************************)
(* C27.  APIClient.get_available_divisions and get_available_teams do not  *)
(* raise and do not return None.  When the remote call fails (exception,   *)
(* status other than 200, success false in the body) they return the demo  *)
(* data: the five demo divisions; the demo teams of the division asked     *)
(* for when it is one of the five, and else the union of all demo teams.   *)
(***************************************************************************)
C27_DemoDataOnFailure ==
    /\ DivisionsCalled =>
           /\ ~dashboard.call.raised
           /\ dashboard.call.result # None
           /\ RemoteFailed(dashboard.call) =>
                  /\ dashboard.call.result.k = "dict"
                  /\ {dashboard.call.result.pairs[i][1] :
                          i \in DOMAIN dashboard.call.result.pairs}
                         = {"E2", "DEN", "F2", "EC", "I1"}
                  /\ dashboard.call.result.pairs = APIClient_get_demo_divisions
    /\ TeamsCalled =>
           /\ ~dashboard.call.raised
           /\ dashboard.call.result # None
           /\ RemoteFailed(dashboard.call) =>
                  IF dashboard.division \in {"E2", "DEN", "F2", "EC", "I1"}
                  THEN dashboard.call.result
                           = [k |-> "list",
                              items |-> DictGet(demo_teams, dashboard.division)]
                  ELSE dashboard.call.result
                           = [k |-> "list", members |-> AllDemoTeams]

\* /teams?division=I1 was refused and the call returned the demo teams of
\* I1.
C27_Witness ==
    /\ TeamsCalled
    /\ dashboard.division = "I1"
    /\ RemoteFailed(dashboard.call)
    /\ dashboard.call.result.items = <<"Inter", "Milan", "Juventus", "Roma", "Napoli">>

\* The teams of a division outside the demo data were asked for, the call
\* failed with an exception, and the union of the demo teams was returned.
C27_WitnessUnion ==
    /\ TeamsCalled
    /\ dashboard.division = "SP1"
    /\ dashboard.call.gets[1].answer.k = "exception"
    /\ dashboard.call.result.members = AllDemoTeams

\* The sum of the reciprocals of the three odds of a body.
ImpliedSumOf(body) ==
    FloatAdd(FloatAdd(FloatRecip(Triple(body.odds)[1]),
                      FloatRecip(Triple(body.odds)[2])),
             FloatRecip(Triple(body.odds)[3]))

(***************************************************************************)
(* C29.  For every vector with three positive components and every margin  *)
(* in [0, 1), the sum of the reciprocals of the returned odds, times       *)
(* 1 - margin, is the sum of the vector; when the vector sums to 1 the     *)
(* implied sum is 1 / (1 - margin).                                        *)
(***************************************************************************)
C29_ImpliedSumTimesShrink ==
    (/\ Answered /\ response.k = "ok"
     /\ PositiveProbabilities(frame.probabilities)
     /\ MarginInRange(request.house_margin)) =>
        /\ FloatMul(ImpliedSumOf(response.body),
                    FloatSub(One, request.house_margin))
               = ProbabilitySum(frame.probabilities)
        /\ frame.implied_prob_sum = ImpliedSumOf(response.body)
        /\ (ProbabilitySum(frame.probabilities) = One) =>
               ImpliedSumOf(response.body)
                   = FloatRecip(FloatSub(One, request.house_margin))

\* A vector that sums to 1 was priced with a margin strictly between 0 and
\* 1, and the implied sum is above 1.
C29_Witness ==
    /\ Answered /\ response.k = "ok"
    /\ PositiveProbabilities(frame.probabilities)
    /\ ProbabilitySum(frame.probabilities) = One
    /\ MarginInside(request.house_margin)
    /\ FloatLt(One, ImpliedSumOf(response.body))

\* A vector that does not sum to 1 was priced with a margin in (0, 1).
C29_WitnessOffSum ==
    /\ Answered /\ response.k = "ok"
    /\ PositiveProbabilities(frame.probabilities)
    /\ ProbabilitySum(frame.probabilities) # One
    /\ MarginInside(request.house_margin)

(***************************************************************************)
(* C30.  On a loaded service, a request whose home team and away team are  *)
(* both unknown is answered with the UnknownTeam error of the home team;   *)
(* the error names the away team only when the home team resolves.         *)
(***************************************************************************)
C30_HomeReportedFirst ==
    (Answered /\ is_loaded) =>
        /\ (~HomeResolves /\ ~AwayResolves) =>
               /\ response.k = "error" /\ response.status_code = 400
               /\ ErrorKind(response) = "UnknownTeam"
               /\ response.detail.role = "local"
               /\ response.detail.team = request.home_team
        /\ (ErrorKind(response) = "UnknownTeam"
                /\ response.detail.role = "visitante") =>
               /\ HomeResolves /\ ~AwayResolves
               /\ response.detail.team = request.away_team

\* Two different unknown teams were sent and the home team was reported.
C30_Witness ==
    /\ Answered /\ is_loaded
    /\ ~HomeResolves /\ ~AwayResolves
    /\ request.home_team # request.away_team
    /\ ErrorKind(response) = "UnknownTeam"
    /\ response.detail.team = request.home_team

\* The away team was reported for a request whose home team resolves.
C30_WitnessAway ==
    /\ Answered /\ is_loaded
    /\ HomeResolves /\ ~AwayResolves
    /\ ErrorKind(response) = "UnknownTeam"
    /\ response.detail.role = "visitante"

====
